---- MODULE Spec2Model ----
(***************************************************************************)
(* A model of the Salesforce add-in: the SalesforceService API client      *)
(* (src/salesforce-service.js) and the task pane's session handling        *)
(* (src/unnamed/part_000).                                                 *)
(*                                                                         *)
(* The browser runs one task at a time.  Every action below is one task:   *)
(* a user-initiated call up to its first pending await, or the arrival of  *)
(* a remote response together with the code that runs on it up to the next *)
(* pending await.  Promise continuations of an enclosing operation (the    *)
(* microtasks of the same task) are separate actions that take priority    *)
(* over every other action (see Quiet).                                    *)
(***************************************************************************)
EXTENDS Integers, Sequences, FiniteSets, TLC

VARIABLES
    localStorage,      \* the 'salesforceSession' item of localStorage
    accessToken,       \* SalesforceService.accessToken (0 models null)
    instanceUrl,       \* SalesforceService.instanceUrl ("null" models null)
    now,               \* Date.now(), in milliseconds
    issued,            \* number of access tokens handed out so far
    ticks,             \* number of clock advances so far
    calls,             \* the apiCall invocations, one record per slot
    refresher,         \* a refreshToken invocation made directly by a caller
    auth,              \* the authenticate invocation: popup, timer, promise
    op,                \* the domain operation in progress
    salesforceSession, \* the task pane's global of that name
    view,              \* the section the task pane shows
    probe,             \* what the synchronous read or the timer callback that
                       \* ran last returned or left behind
    signedOut          \* history: logged out or refresh rejected, and no
                       \* authorization has succeeded since

vars == <<localStorage, accessToken, instanceUrl, now, issued, ticks, calls,
          refresher, auth, op, salesforceSession, view, probe, signedOut>>

----------------------------------------------------------------------------
(* Bounds of the model *)

MaxTokens == 2
MaxTicks == 2
MaxSkew == 2
MaxRecords == 2
MaxAccounts == 2

\* two apiCall invocations may be in progress at the same time
CallIds == {1, 2}
Tokens == 1..MaxTokens
Urls == {"https://a.example", "https://b.example"}
Statuses == {"200", "204", "401", "500", "neterr"}

----------------------------------------------------------------------------
(* Values *)

Null == 0
NullUrl == "null"

\* const expirationTime = 2 * 60 * 60 * 1000
expirationTime == 2 * 60 * 60 * 1000

\* issued_at as it may sit in a session object
NoIssuedAt == [kind |-> "absent", val |-> 0]
EmptyIssuedAt == [kind |-> "empty", val |-> 0]
TextIssuedAt == [kind |-> "text", val |-> 0]
DigitsIssuedAt(n) == [kind |-> "digits", val |-> n]

\* localStorage.getItem('salesforceSession') === null
Absent == [kind |-> "absent"]
\* an item that JSON.parse rejects
Malformed == [kind |-> "malformed"]

Session(tok, rt, url, iat, sig) ==
    [kind |-> "session", access_token |-> tok, refresh_token |-> rt,
     instance_url |-> url, issued_at |-> iat, signature |-> sig]

NoRefresh == "undefined"

\* response.ok
ok(status) == status \in {"200", "204"}

----------------------------------------------------------------------------
(* Reading the persisted session *)

\* JSON.parse(localStorage.getItem('salesforceSession')) without a try block:
\* a SyntaxError on a malformed item, null on a missing one (JSON.parse(null))
ParseItem(item) ==
    CASE item.kind = "malformed" -> [threw |-> TRUE, value |-> Absent]
      [] item.kind = "absent" -> [threw |-> FALSE, value |-> Absent]
      [] OTHER -> [threw |-> FALSE, value |-> item]

\* parseInt(session.issued_at): NaN for a string that starts with no digit
parseInt(iat) ==
    IF iat.kind = "digits" THEN [nan |-> FALSE, val |-> iat.val]
    ELSE [nan |-> TRUE, val |-> 0]

\* !session.issued_at: undefined and the empty string are falsy
Falsy(iat) == iat.kind \in {"absent", "empty"}

\* an isTokenExpired that counts the last millisecond of the window as expired
isTokenExpiredEarly(session, t) ==
    IF Falsy(session.issued_at) THEN TRUE
    ELSE LET issuedAt == parseInt(session.issued_at)
         IN  IF issuedAt.nan THEN FALSE
             ELSE (t - issuedAt.val) >= expirationTime

\* function isTokenExpired(session); every comparison with NaN is false
isTokenExpired(session, t) ==
    IF Falsy(session.issued_at) THEN TRUE
    ELSE LET issuedAt == parseInt(session.issued_at)
         IN  IF issuedAt.nan THEN FALSE
             ELSE (t - issuedAt.val) > expirationTime

\* SalesforceService.isAuthenticated
isAuthenticated(item) ==
    IF item.kind = "absent" THEN FALSE
    ELSE IF item.kind = "malformed" THEN FALSE
    ELSE item.access_token # Null /\ item.instance_url # NullUrl

\* SalesforceService.getSessionInfo: the parsed session, or null
getSessionInfo(item) ==
    IF item.kind = "absent" THEN Absent
    ELSE IF item.kind = "malformed" THEN Absent
    ELSE item

----------------------------------------------------------------------------
(* apiCall and refreshToken, the parts that compute *)

\* an apiCall that takes any persisted session, with or without an access token
ResolveCredentialsAnySession(tok, url, item) ==
    IF tok # Null THEN [err |-> "none", tok |-> tok, url |-> url]
    ELSE LET p == ParseItem(item)
         IN  IF p.threw THEN [err |-> "SyntaxError", tok |-> tok, url |-> url]
             ELSE IF p.value.kind = "session"
                  THEN [err |-> "none", tok |-> p.value.access_token,
                        url |-> p.value.instance_url]
                  ELSE [err |-> "NotAuthenticated", tok |-> tok, url |-> url]

\* apiCall, credential resolution: the cache if set, else the persisted session
ResolveCredentials(tok, url, item) ==
    IF tok # Null THEN [err |-> "none", tok |-> tok, url |-> url]
    ELSE LET p == ParseItem(item)
         IN  IF p.threw THEN [err |-> "SyntaxError", tok |-> tok, url |-> url]
             ELSE IF p.value.kind = "session" /\ p.value.access_token # Null
                  THEN [err |-> "none", tok |-> p.value.access_token,
                        url |-> p.value.instance_url]
                  ELSE [err |-> "NotAuthenticated", tok |-> tok, url |-> url]

\* a refreshToken that goes on with any persisted session, refresh token or not
RefreshPreconditionAnySession(item) ==
    LET p == ParseItem(item)
    IN  IF p.threw THEN [err |-> "SyntaxError", session |-> Absent]
        ELSE IF p.value.kind # "session"
             THEN [err |-> "NoRefreshToken", session |-> Absent]
             ELSE [err |-> "none", session |-> p.value]

\* refreshToken, before its request: the session it will update
RefreshPrecondition(item) ==
    LET p == ParseItem(item)
    IN  IF p.threw THEN [err |-> "SyntaxError", session |-> Absent]
        ELSE IF p.value.kind # "session" \/ p.value.refresh_token = NoRefresh
             THEN [err |-> "NoRefreshToken", session |-> Absent]
             ELSE [err |-> "none", session |-> p.value]

\* a refreshToken that forgets localStorage.removeItem
StoreKeptAfterRejectedRefresh(item) == item

\* refreshToken on a rejected grant: localStorage.removeItem
StoreAfterRejectedRefresh(item) == Absent

\* refreshToken on success: the captured session with the new token written back
RefreshedSession(session, tok, iat) ==
    [session EXCEPT !.access_token = tok, !.issued_at = iat]

\* an apiCall that takes every failure status for an expired token
FirstResponseRefreshesOnAnyError(status) ==
    CASE status = "neterr" -> "NetworkError"
      [] ~ok(status) -> "refresh"
      [] status = "204" -> "empty"
      [] OTHER -> "json"

\* an apiCall that fails on a 401 like on any other failure status
FirstResponseNoRefresh(status) ==
    CASE status = "neterr" -> "NetworkError"
      [] ~ok(status) -> "ApiCallFailed"
      [] status = "204" -> "empty"
      [] OTHER -> "json"

\* apiCall, what the response to the first request leads to
FirstResponse(status) ==
    CASE status = "neterr" -> "NetworkError"
      [] status = "401" -> "refresh"
      [] ~ok(status) -> "ApiCallFailed"
      [] status = "204" -> "empty"
      [] OTHER -> "json"

\* response.json(): a 204 has no body, and parsing an empty body throws
ResponseJson(status) == [threw |-> status = "204"]

\* an apiCall that treats a 401 on the retry like the first one
RetryResponseLoops(status) ==
    IF status = "401" THEN "refresh"
    ELSE IF status = "neterr" \/ ~ok(status) \/ ResponseJson(status).threw
         THEN "AuthExpired" ELSE "json"

\* apiCall, what the response to the retry leads to: the whole retry sits in
\* the try block, whose catch replaces every failure by 'Authentication expired'
RetryResponse(status) ==
    LET thrown == IF status = "neterr" THEN "TypeError"
                  ELSE IF ~ok(status) THEN "ApiCallFailed"
                  ELSE IF ResponseJson(status).threw THEN "SyntaxError"
                  ELSE "none"
    IN  IF thrown # "none" THEN "AuthExpired" ELSE "json"

\* an apiCall that retries with the options it built for the first request
RetryTokenStale(sentToken, cachedToken) == sentToken

\* apiCall, the Authorization header of the retry: this.accessToken, read again
RetryToken(sentToken, cachedToken) == cachedToken

----------------------------------------------------------------------------
(* The state of one apiCall invocation *)

NoResult == [kind |-> "none", has |-> FALSE, recs |-> <<>>]
\* the {} returned for a 204
EmptyResult == [kind |-> "empty", has |-> FALSE, recs |-> <<>>]
JsonResult(body) == [kind |-> "json", has |-> body.has, recs |-> body.recs]

\* a parsed response body: whether it has a records field, and the records
Body(has, recs) == [has |-> has, recs |-> recs]

IdleCall ==
    [pc |-> "idle", owner |-> "user", q |-> "none", outcome |-> "none",
     status |-> "none", result |-> NoResult,
     attempts |-> 0, refreshes |-> 0, refreshRequests |-> 0,
     refreshError |-> "none",
     token1 |-> Null, token2 |-> Null, newToken |-> Null, url |-> NullUrl,
     session |-> Absent]

\* the call has settled
Settle(call, outcome, status, result) ==
    [call EXCEPT !.pc = "done", !.outcome = outcome, !.status = status,
                 !.result = result]

\* a refreshToken that leaves the persisted session alone when the grant is
\* rejected
RefreshResultKeepsStore(r, session, item, cache, tok, t) ==
    CASE r = "ok" ->
           [err |-> "none", cache |-> tok,
            item |-> RefreshedSession(session, tok, DigitsIssuedAt(t))]
      [] r = "rejected" ->
           [err |-> "RefreshExpired", cache |-> cache, item |-> item]
      [] OTHER ->
           [err |-> "NetworkError", cache |-> cache, item |-> item]

\* refreshToken, from the response to its request on
RefreshResult(r, session, item, cache, tok, t) ==
    CASE r = "ok" ->
           [err |-> "none", cache |-> tok,
            item |-> RefreshedSession(session, tok, DigitsIssuedAt(t))]
      [] r = "rejected" ->
           [err |-> "RefreshExpired", cache |-> cache,
            item |-> StoreAfterRejectedRefresh(item)]
      [] OTHER ->
           [err |-> "NetworkError", cache |-> cache, item |-> item]

IdleRefresher == [pc |-> "idle", outcome |-> "none", session |-> Absent]

NoProbe == [name |-> "none", flag |-> FALSE, value |-> Absent]

----------------------------------------------------------------------------
(* Domain operations: the state of the one in progress *)

\* the apiCall slot the domain operation makes its calls in
OpSlot == CHOOSE c \in CallIds : \A d \in CallIds : c <= d

EmptyResults ==
    [contacts |-> <<>>, leads |-> <<>>, accounts |-> <<>>, opportunities |-> <<>>]

\* the emailAddresses argument: null, or a list
NoList == [given |-> FALSE, list |-> <<>>]
List(l) == [given |-> TRUE, list |-> l]

\* JavaScript values of the inputs: undefined, null, or a string
Undefined == [type |-> "undefined", text |-> ""]
NullValue == [type |-> "null", text |-> ""]
Str(text) == [type |-> "string", text |-> text]

\* !value is false: of these values only a string that is not empty
Truthy(v) == v.type = "string" /\ v.text # ""

\* a || b
Or(a, b) == IF Truthy(a) THEN a ELSE b

\* no input, and an object without properties
NoInput == [kind |-> "none"]
NoPayload == <<>>

IdleOp ==
    [name |-> "none", pc |-> "idle", emails |-> NoList, results |-> EmptyResults,
     raised |-> FALSE, failed |-> "none", error |-> "none",
     dispatched |-> <<>>, accountList |-> <<>>,
     success |-> FALSE, input |-> NoInput, payload |-> NoPayload,
     returned |-> NoResult, list |-> <<>>]

OpAwaiting ==
    {"contact", "account", "opportunity", "lead", "user", "org", "create",
     "search", "searchContact", "searchLead"}

\* no promise continuation is pending: the previous task has run to completion
Quiet == ~(op.pc \in OpAwaiting /\ calls[OpSlot].pc = "done")

\* Records are told apart by a number: for a Contact the Id of its Account
\* (0: it has none), for the other types the Id of the record.
AccountIds == 1..MaxAccounts

RECURSIVE SeqsUpTo(_, _)
SeqsUpTo(S, n) ==
    IF n = 0 THEN {<<>>}
    ELSE LET shorter == SeqsUpTo(S, n - 1)
         IN  shorter \cup {Append(q, x) : q \in shorter, x \in S}

\* the object types of a search, and the records the remote may return for
\* one: each has the type the remote gives it and an Id
ObjectTypes == {"Contact", "Lead"}
SearchRecords == {[type |-> t, id |-> i] : t \in ObjectTypes, i \in 1..MaxRecords}

\* the response bodies the remote may send for a request: with or without a
\* records field
Bodies(q) ==
    IF q = "contact"
    THEN {Body(FALSE, <<>>)}
           \cup {Body(TRUE, recs) : recs \in SeqsUpTo({0} \cup AccountIds, MaxRecords)}
    ELSE IF q \in {"account", "opportunity", "lead"}
    THEN {Body(FALSE, <<>>), Body(TRUE, <<>>), Body(TRUE, <<1>>)}
    ELSE IF q = "search"
    THEN {Body(FALSE, <<>>)}
           \cup {Body(TRUE, recs) : recs \in SeqsUpTo(SearchRecords, MaxRecords)}
    ELSE IF q \in {"searchContact", "searchLead"}
    THEN {Body(FALSE, <<>>)}
           \cup {Body(TRUE, recs) : recs \in SeqsUpTo(1..MaxRecords, MaxRecords)}
    ELSE {Body(TRUE, <<>>)}

\* What an invocation returned is seen by its caller when it returns: the record
\* of a settled invocation is kept for that one state.
Returned(cs) == [c \in CallIds |-> IF cs[c].pc = "done" THEN IdleCall ELSE cs[c]]

ReturnedRefresh(r) == IF r.pc = "done" THEN IdleRefresher ELSE r

ReturnedOp(o) == IF o.pc = "done" THEN IdleOp ELSE o

----------------------------------------------------------------------------
(* apiCall *)

\* apiCall up to its first await: resolve the credentials, send the request
apiCall(c, owner, q) ==
    LET r == ResolveCredentials(accessToken, instanceUrl, localStorage)
        fresh == [IdleCall EXCEPT !.owner = owner, !.q = q]
    IN  /\ accessToken' = r.tok
        /\ instanceUrl' = r.url
        /\ calls' = [Returned(calls) EXCEPT ![c] =
              IF r.err = "none"
              THEN [fresh EXCEPT !.pc = "fetch", !.attempts = 1,
                                 !.token1 = r.tok, !.url = r.url]
              ELSE Settle(fresh, r.err, "none", NoResult)]

\* a caller of the service invokes apiCall
UserCall(c) ==
    /\ Quiet
    /\ calls[c].pc \in {"idle", "done"}
    /\ c = OpSlot => op.pc \notin OpAwaiting
    /\ apiCall(c, "user", "none")
    /\ probe' = NoProbe
    /\ refresher' = ReturnedRefresh(refresher)
    /\ op' = ReturnedOp(op)
    /\ UNCHANGED <<localStorage, now, issued, ticks, auth, salesforceSession,
                   view, signedOut>>

\* apiCall, the step a response leads to: a refreshToken() that either sends its
\* request or fails at once, a result, or a failure
AfterResponse(call, next, status, body, item) ==
    LET p == RefreshPrecondition(item)
        got == [call EXCEPT !.status = status]
    IN  CASE next = "refresh" /\ p.err = "none" ->
               [got EXCEPT !.pc = "refresh", !.refreshes = @ + 1,
                           !.refreshRequests = @ + 1, !.session = p.session]
          [] next = "refresh" /\ p.err # "none" ->
               [Settle(got, "AuthExpired", status, NoResult)
                  EXCEPT !.refreshes = @ + 1, !.refreshError = p.err]
          [] next = "empty" -> Settle(got, "ok", status, EmptyResult)
          [] next = "json" -> Settle(got, "ok", status, JsonResult(body))
          [] OTHER -> Settle(got, next, status, NoResult)

\* the response to the first request arrives
FetchResponse(c) ==
    /\ Quiet
    /\ calls[c].pc = "fetch"
    /\ \E status \in Statuses, body \in Bodies(calls[c].q) :
         calls' = [Returned(calls) EXCEPT ![c] =
           AfterResponse(@, FirstResponse(status), status, body, localStorage)]
    /\ probe' = NoProbe
    /\ refresher' = ReturnedRefresh(refresher)
    /\ op' = ReturnedOp(op)
    /\ UNCHANGED <<localStorage, accessToken, instanceUrl, now, issued,
                   ticks, auth, salesforceSession, view, signedOut>>

\* the response to the refresh request of an apiCall arrives; on success the
\* retry is sent
RefreshResponse(c) ==
    /\ Quiet
    /\ calls[c].pc = "refresh"
    /\ \E r \in {"ok", "rejected", "neterr"} :
         LET res == RefreshResult(r, calls[c].session, localStorage, accessToken,
                                  issued + 1, now)
         IN  /\ r = "ok" => issued < MaxTokens
             /\ issued' = IF r = "ok" THEN issued + 1 ELSE issued
             /\ localStorage' = res.item
             /\ accessToken' = res.cache
             /\ calls' = [Returned(calls) EXCEPT ![c] =
                   IF res.err = "none"
                   THEN [@ EXCEPT !.pc = "retry", !.attempts = @ + 1,
                                  !.newToken = issued + 1,
                                  !.token2 = RetryToken(calls[c].token1, res.cache)]
                   ELSE [Settle(@, "AuthExpired", @.status, NoResult)
                           EXCEPT !.refreshError = res.err]]
    /\ probe' = NoProbe
    /\ refresher' = ReturnedRefresh(refresher)
    /\ signedOut' = (signedOut \/ calls'[c].refreshError = "RefreshExpired")
    /\ op' = ReturnedOp(op)
    /\ UNCHANGED <<instanceUrl, now, ticks, auth, salesforceSession, view>>

\* the response to the retry arrives
RetryResponseArrives(c) ==
    /\ Quiet
    /\ calls[c].pc = "retry"
    /\ \E status \in Statuses, body \in Bodies(calls[c].q) :
         calls' = [Returned(calls) EXCEPT ![c] =
           AfterResponse(@, RetryResponse(status), status, body, localStorage)]
    /\ probe' = NoProbe
    /\ refresher' = ReturnedRefresh(refresher)
    /\ op' = ReturnedOp(op)
    /\ UNCHANGED <<localStorage, accessToken, instanceUrl, now, issued,
                   ticks, auth, salesforceSession, view, signedOut>>

----------------------------------------------------------------------------
(* findRelatedRecords *)

\* contactResult.records.filter(contact => contact.Account && contact.Account.Id)
\*   .map(contact => contact.Account.Id)
accountIds(records) == SelectSeq(records, LAMBDA a : a # 0)

\* an account list that keeps every occurrence of an Id
AccountIdsWithDuplicates(ids) == ids

\* [...new Set(accountIds)]: each value once, in the order of first occurrence
RECURSIVE uniqueAccountIds(_)
uniqueAccountIds(ids) ==
    IF ids = <<>> THEN <<>>
    ELSE LET front == uniqueAccountIds(SubSeq(ids, 1, Len(ids) - 1))
             last == ids[Len(ids)]
         IN  IF \E i \in 1..Len(front) : front[i] = last THEN front
             ELSE Append(front, last)

\* a findRelatedRecords that returns early only when it is given no list
NoAddressesOnlyNull(emails) == ~emails.given

\* findRelatedRecords without addresses returns before its try block
NoAddresses(emails) == ~emails.given \/ Len(emails.list) = 0

\* findRelatedRecords after a query has succeeded: the group it fills and the
\* query that comes next ("return" after the last)
AfterQuery(o, result) ==
    CASE o.pc = "contact" ->
           IF result.has
           THEN LET ids == accountIds(result.recs)
                IN  [o EXCEPT !.results.contacts = result.recs,
                              !.accountList = uniqueAccountIds(ids),
                              !.pc = IF Len(ids) > 0 THEN "account" ELSE "lead"]
           ELSE [o EXCEPT !.pc = "lead"]
      [] o.pc = "account" ->
           [o EXCEPT !.results.accounts = IF result.has THEN result.recs ELSE @,
                     !.pc = "opportunity"]
      [] o.pc = "opportunity" ->
           [o EXCEPT !.results.opportunities =
                         IF result.has THEN result.recs ELSE @,
                     !.pc = "lead"]
      [] OTHER ->
           [o EXCEPT !.results.leads = IF result.has THEN result.recs ELSE @,
                     !.pc = "return"]

\* a findRelatedRecords without its try block: the failure of a query reaches
\* the caller and the results gathered so far are lost
AfterFailureRaises(o, error) ==
    [o EXCEPT !.failed = o.pc, !.error = error, !.pc = "done",
              !.raised = TRUE, !.results = EmptyResults]

\* findRelatedRecords, its catch block: the failure is logged and the results
\* gathered so far are returned
AfterFailure(o, error) ==
    [o EXCEPT !.failed = o.pc, !.error = error, !.pc = "done"]

\* this.query(q) is called: apiCall runs up to its first await; if it throws,
\* the catch block runs in the same task
Dispatch(o, q) ==
    LET r == ResolveCredentials(accessToken, instanceUrl, localStorage)
        sent == [o EXCEPT !.pc = q, !.dispatched = Append(@, q)]
    IN  /\ apiCall(OpSlot, "op", q)
        /\ op' = IF r.err = "none" THEN sent ELSE AfterFailure(sent, r.err)

findRelatedRecords(emails) ==
    /\ Quiet
    /\ op.pc \in {"idle", "done"}
    /\ calls[OpSlot].pc \in {"idle", "done"}
    /\ LET o == [IdleOp EXCEPT !.name = "findRelatedRecords", !.emails = emails]
       IN  IF NoAddresses(emails)
           THEN /\ op' = [o EXCEPT !.pc = "done"]
                /\ calls' = Returned(calls)
                /\ UNCHANGED <<accessToken, instanceUrl>>
           ELSE Dispatch(o, "contact")
    /\ probe' = NoProbe
    /\ refresher' = ReturnedRefresh(refresher)
    /\ UNCHANGED <<localStorage, now, issued, ticks, auth, salesforceSession,
                   view, signedOut>>

\* the query findRelatedRecords awaits has settled: its continuation runs
findRelatedRecordsResumes ==
    /\ op.name = "findRelatedRecords"
    /\ op.pc \in OpAwaiting
    /\ calls[OpSlot].pc = "done"
    /\ LET call == calls[OpSlot]
           o == AfterQuery(op, call.result)
       IN  IF call.outcome # "ok"
           THEN /\ op' = AfterFailure(op, call.outcome)
                /\ calls' = Returned(calls)
                /\ UNCHANGED <<accessToken, instanceUrl>>
           ELSE IF o.pc = "return"
           THEN /\ op' = [o EXCEPT !.pc = "done"]
                /\ calls' = Returned(calls)
                /\ UNCHANGED <<accessToken, instanceUrl>>
           ELSE Dispatch(o, o.pc)
    /\ probe' = NoProbe
    /\ refresher' = ReturnedRefresh(refresher)
    /\ UNCHANGED <<localStorage, now, issued, ticks, auth, salesforceSession,
                   view, signedOut>>

----------------------------------------------------------------------------
(* refreshToken called directly, logout, and the synchronous reads *)

RefreshStart ==
    /\ Quiet
    /\ refresher.pc \in {"idle", "done"}
    /\ LET p == RefreshPrecondition(localStorage)
       IN  refresher' =
             IF p.err = "none"
             THEN [pc |-> "wait", outcome |-> "none", session |-> p.session]
             ELSE [pc |-> "done", outcome |-> p.err, session |-> Absent]
    /\ probe' = NoProbe
    /\ calls' = Returned(calls)
    /\ op' = ReturnedOp(op)
    /\ UNCHANGED <<localStorage, accessToken, instanceUrl, now, issued,
                   ticks, auth, salesforceSession, view, signedOut>>

RefreshFinish ==
    /\ Quiet
    /\ refresher.pc = "wait"
    /\ \E r \in {"ok", "rejected", "neterr"} :
         LET res == RefreshResult(r, refresher.session, localStorage,
                                  accessToken, issued + 1, now)
         IN  /\ r = "ok" => issued < MaxTokens
             /\ issued' = IF r = "ok" THEN issued + 1 ELSE issued
             /\ localStorage' = res.item
             /\ accessToken' = res.cache
             /\ refresher' = [refresher EXCEPT !.pc = "done",
                  !.outcome = IF res.err = "none" THEN "ok" ELSE res.err]
    /\ probe' = NoProbe
    /\ calls' = Returned(calls)
    /\ signedOut' = (signedOut \/ refresher'.outcome = "RefreshExpired")
    /\ op' = ReturnedOp(op)
    /\ UNCHANGED <<instanceUrl, now, ticks, auth, salesforceSession, view>>

\* SalesforceService.logout
logout ==
    /\ Quiet
    /\ accessToken' = Null
    /\ instanceUrl' = NullUrl
    /\ localStorage' = Absent
    /\ probe' = NoProbe
    /\ calls' = Returned(calls)
    /\ refresher' = ReturnedRefresh(refresher)
    /\ signedOut' = TRUE
    /\ op' = ReturnedOp(op)
    /\ UNCHANGED <<now, issued, ticks, auth, salesforceSession, view>>

IsAuthenticated ==
    /\ Quiet
    /\ probe' = [name |-> "isAuthenticated",
                 flag |-> isAuthenticated(localStorage), value |-> Absent]
    /\ calls' = Returned(calls)
    /\ refresher' = ReturnedRefresh(refresher)
    /\ op' = ReturnedOp(op)
    /\ UNCHANGED <<localStorage, accessToken, instanceUrl, now, issued,
                   ticks, auth, salesforceSession, view, signedOut>>

GetSessionInfo ==
    /\ Quiet
    /\ probe' = [name |-> "getSessionInfo", flag |-> FALSE,
                 value |-> getSessionInfo(localStorage)]
    /\ calls' = Returned(calls)
    /\ refresher' = ReturnedRefresh(refresher)
    /\ op' = ReturnedOp(op)
    /\ UNCHANGED <<localStorage, accessToken, instanceUrl, now, issued,
                   ticks, auth, salesforceSession, view, signedOut>>

\* isTokenExpired(session) is called on the persisted session
IsTokenExpired ==
    /\ Quiet
    /\ localStorage.kind = "session"
    /\ probe' = [name |-> "isTokenExpired",
                 flag |-> isTokenExpired(localStorage, now),
                 value |-> localStorage]
    /\ calls' = Returned(calls)
    /\ refresher' = ReturnedRefresh(refresher)
    /\ op' = ReturnedOp(op)
    /\ UNCHANGED <<localStorage, accessToken, instanceUrl, now, issued, ticks,
                   auth, salesforceSession, view, signedOut>>

\* time passes: a moment, or the length of the validity window
Tick ==
    /\ Quiet
    /\ ticks < MaxTicks
    /\ ticks' = ticks + 1
    /\ \E d \in {1, expirationTime} : now' = now + d
    /\ probe' = NoProbe
    /\ calls' = Returned(calls)
    /\ refresher' = ReturnedRefresh(refresher)
    /\ op' = ReturnedOp(op)
    /\ UNCHANGED <<localStorage, accessToken, instanceUrl, issued, auth,
                   salesforceSession, view, signedOut>>

----------------------------------------------------------------------------
(* authenticate and exchangeCodeForToken *)

NoPopup == [closed |-> TRUE, at |-> "remote", code |-> FALSE, error |-> FALSE]

IdleAuth ==
    [interval |-> FALSE, popup |-> NoPopup, outcome |-> "idle",
     exchange |-> "none"]

\* resolve and reject settle a promise once; later calls change nothing
SettlePromise(outcome, with) == IF outcome = "pending" THEN with ELSE outcome

\* a timer callback that takes a popup it cannot read for a closed one
PollSeesClosedOrUnreadable(popup) == popup.closed \/ popup.at = "remote"

\* the timer callback, its first statement: the popup was closed
PollSeesClosed(popup) == popup.closed

\* the timer callback, its try block: popup.location.href holds the redirect
\* URI.  Reading the location of a popup still on the remote domain throws; of
\* a closed popup the read may throw, give an empty location, or still give
\* the last one (readable)
PollSeesRedirect(popup, readable) ==
    IF popup.closed THEN readable /\ popup.at = "redirect"
    ELSE popup.at = "redirect"

\* the timer callback, what it settles the promise with and whether it starts
\* the code exchange; once clearInterval has run nothing reads the popup again
PollTick(a, readable) ==
    LET cancelled == PollSeesClosed(a.popup)
        redirected == PollSeesRedirect(a.popup, readable)
        o1 == IF cancelled THEN SettlePromise(a.outcome, "AuthCancelled")
              ELSE a.outcome
        o2 == IF redirected /\ a.popup.error
              THEN SettlePromise(o1, "AuthDenied") ELSE o1
        exchange == redirected /\ ~a.popup.error /\ a.popup.code
    IN  [a EXCEPT !.interval = ~(cancelled \/ redirected),
                  !.popup = IF cancelled \/ redirected THEN NoPopup ELSE @,
                  !.outcome = o2,
                  !.exchange = IF exchange THEN "inflight" ELSE @]

\* SalesforceService.authenticate up to the promise it returns
authenticate(u) ==
    /\ Quiet
    /\ ~auth.interval
    /\ auth.exchange # "inflight"
    /\ instanceUrl' = u
    /\ auth' = [IdleAuth EXCEPT !.interval = TRUE, !.outcome = "pending",
                                !.popup.closed = FALSE]
    /\ probe' = NoProbe
    /\ calls' = Returned(calls)
    /\ refresher' = ReturnedRefresh(refresher)
    /\ op' = ReturnedOp(op)
    /\ UNCHANGED <<localStorage, accessToken, now, issued, ticks,
                   salesforceSession, view, signedOut>>

\* the remote sends the popup to the redirect URI, with the parameters it chooses
PopupRedirects ==
    /\ Quiet
    /\ ~auth.popup.closed
    /\ auth.popup.at = "remote"
    /\ \E code \in BOOLEAN, error \in BOOLEAN :
         auth' = [auth EXCEPT !.popup.at = "redirect", !.popup.code = code,
                              !.popup.error = error]
    /\ probe' = NoProbe
    /\ calls' = Returned(calls)
    /\ refresher' = ReturnedRefresh(refresher)
    /\ op' = ReturnedOp(op)
    /\ UNCHANGED <<localStorage, accessToken, instanceUrl, now, issued,
                   ticks, salesforceSession, view, signedOut>>

\* the user closes the popup
PopupClosedByUser ==
    /\ Quiet
    /\ auth.interval
    /\ ~auth.popup.closed
    /\ auth' = [auth EXCEPT !.popup.closed = TRUE]
    /\ probe' = NoProbe
    /\ calls' = Returned(calls)
    /\ refresher' = ReturnedRefresh(refresher)
    /\ op' = ReturnedOp(op)
    /\ UNCHANGED <<localStorage, accessToken, instanceUrl, now, issued,
                   ticks, salesforceSession, view, signedOut>>

\* setInterval fires
Poll ==
    /\ Quiet
    /\ auth.interval
    /\ \E readable \in BOOLEAN : auth' = PollTick(auth, readable)
    /\ probe' = [name |-> "poll", flag |-> auth'.interval, value |-> Absent]
    /\ calls' = Returned(calls)
    /\ refresher' = ReturnedRefresh(refresher)
    /\ op' = ReturnedOp(op)
    /\ UNCHANGED <<localStorage, accessToken, instanceUrl, now, issued,
                   ticks, salesforceSession, view, signedOut>>

\* exchangeCodeForToken, from the response to its request on
ExchangeResult(r, tok, rt, url, t) ==
    CASE r = "ok" ->
           [err |-> "none", session |-> Session(tok, rt, url, DigitsIssuedAt(t), "sig")]
      [] r = "rejected" -> [err |-> "TokenExchangeFailed", session |-> Absent]
      [] OTHER -> [err |-> "NetworkError", session |-> Absent]

\* the response to the token request arrives
ExchangeResponse ==
    /\ Quiet
    /\ auth.exchange = "inflight"
    /\ \E r \in {"ok", "rejected", "neterr"}, rt \in {"rt", NoRefresh}, url \in Urls :
         LET res == ExchangeResult(r, issued + 1, rt, url, now)
         IN  /\ r = "ok" => issued < MaxTokens
             /\ r # "ok" => (rt = NoRefresh /\ url = CHOOSE x \in Urls : TRUE)
             /\ issued' = IF r = "ok" THEN issued + 1 ELSE issued
             /\ accessToken' = IF r = "ok" THEN res.session.access_token
                               ELSE accessToken
             /\ instanceUrl' = IF r = "ok" THEN res.session.instance_url
                               ELSE instanceUrl
             /\ localStorage' = IF r = "ok" THEN res.session ELSE localStorage
             /\ auth' = [auth EXCEPT !.exchange = "done",
                   !.outcome = SettlePromise(@, IF r = "ok" THEN "ok" ELSE res.err)]
             /\ signedOut' = (signedOut /\ r # "ok")
    /\ probe' = NoProbe
    /\ calls' = Returned(calls)
    /\ refresher' = ReturnedRefresh(refresher)
    /\ op' = ReturnedOp(op)
    /\ UNCHANGED <<now, ticks, salesforceSession, view>>

----------------------------------------------------------------------------
(* The task pane *)

MockToken == MaxTokens + 1

\* checkSalesforceAuth, run once when the task pane is ready
CheckAuth(item, global, t) ==
    LET p == ParseItem(item)
    IN  IF item.kind = "absent" \/ p.threw
        THEN [global |-> global, view |-> "auth"]
        ELSE [global |-> p.value,
              view |-> IF p.value.access_token # Null /\ ~isTokenExpired(p.value, t)
                       THEN "main" ELSE "auth"]

checkSalesforceAuth ==
    /\ Quiet
    /\ view = "none"
    /\ salesforceSession' = CheckAuth(localStorage, salesforceSession, now).global
    /\ view' = CheckAuth(localStorage, salesforceSession, now).view
    /\ probe' = NoProbe
    /\ calls' = Returned(calls)
    /\ refresher' = ReturnedRefresh(refresher)
    /\ op' = ReturnedOp(op)
    /\ UNCHANGED <<localStorage, accessToken, instanceUrl, now, issued,
                   ticks, auth, signedOut>>

\* simulateAuthentication: a mock session without a refresh token
simulateAuthentication(u) ==
    /\ Quiet
    /\ view = "auth"
    /\ salesforceSession' =
         Session(MockToken, NoRefresh, u, DigitsIssuedAt(now), "mock_signature")
    /\ localStorage' = salesforceSession'
    /\ view' = "main"
    /\ probe' = NoProbe
    /\ calls' = Returned(calls)
    /\ refresher' = ReturnedRefresh(refresher)
    /\ signedOut' = FALSE
    /\ op' = ReturnedOp(op)
    /\ UNCHANGED <<accessToken, instanceUrl, now, issued, ticks, auth>>

logoutFromSalesforce ==
    /\ Quiet
    /\ view = "main"
    /\ localStorage' = Absent
    /\ salesforceSession' = Absent
    /\ view' = "auth"
    /\ probe' = NoProbe
    /\ calls' = Returned(calls)
    /\ refresher' = ReturnedRefresh(refresher)
    /\ op' = ReturnedOp(op)
    /\ UNCHANGED <<accessToken, instanceUrl, now, issued, ticks, auth,
                   signedOut>>

\* the task pane is loaded again: the script state starts over, localStorage stays
Reload ==
    /\ accessToken' = Null
    /\ instanceUrl' = NullUrl
    /\ calls' = [c \in CallIds |-> IdleCall]
    /\ refresher' = IdleRefresher
    /\ auth' = IdleAuth
    /\ op' = IdleOp
    /\ salesforceSession' = Absent
    /\ view' = "none"
    /\ probe' = NoProbe
    /\ UNCHANGED <<localStorage, now, issued, ticks, signedOut>>

----------------------------------------------------------------------------
(* createContact, createLead, createActivityFromEmail, logEmail *)

\* Object.keys(o).forEach(key => { if (!o[key]) delete o[key] })
RemoveEmpty(o) == [k \in {f \in DOMAIN o : Truthy(o[f])} |-> o[k]]

\* createContact, the object it sends
ContactPayload(data) ==
    RemoveEmpty([FirstName |-> data.firstName, LastName |-> data.lastName,
                 Email |-> data.email, Phone |-> data.phone,
                 Title |-> data.title, Department |-> data.department,
                 Description |-> data.description])

\* a createLead that sends Status and LeadSource as they were given
LeadPayloadWithoutDefaults(data) ==
    RemoveEmpty([FirstName |-> data.firstName, LastName |-> data.lastName,
                 Email |-> data.email, Phone |-> data.phone,
                 Company |-> data.company, Title |-> data.title,
                 Status |-> data.status, LeadSource |-> data.source,
                 Description |-> data.description])

\* createLead, the object it sends
LeadPayload(data) ==
    RemoveEmpty([FirstName |-> data.firstName, LastName |-> data.lastName,
                 Email |-> data.email, Phone |-> data.phone,
                 Company |-> data.company, Title |-> data.title,
                 Status |-> Or(data.status, Str("Open - Not Contacted")),
                 LeadSource |-> Or(data.source, Str("Email")),
                 Description |-> data.description])

\* a createActivityFromEmail that links like createEmailTask: always by WhatId
ActivityLinkAlwaysWhat(activityData) ==
    IF Truthy(activityData.relatedToId) THEN "WhatId" ELSE "none"

\* createActivityFromEmail, the link it sets: WhoId, WhatId, or none
ActivityLink(activityData) ==
    IF Truthy(activityData.relatedToId)
    THEN IF activityData.relatedToType = Str("Contact")
            \/ activityData.relatedToType = Str("Lead")
         THEN "WhoId" ELSE "WhatId"
    ELSE "none"

\* o with o[key] = value added
With(o, key, value) ==
    [k \in DOMAIN o \cup {key} |-> IF k = key THEN value ELSE o[k]]

\* createActivityFromEmail, the object it sends
ActivityPayload(emailData, activityData) ==
    LET task == [Subject |-> Or(activityData.subject, Str("Email: subject")),
                 Description |-> Or(activityData.description, emailData.body),
                 ActivityDate |-> Str("today"),
                 Status |-> Or(activityData.status, Str("Completed")),
                 Type |-> Or(activityData.type, Str("Email")),
                 Priority |-> Or(activityData.priority, Str("Normal"))]
        link == ActivityLink(activityData)
    IN  IF link = "none" THEN task
        ELSE With(task, link, activityData.relatedToId)

\* logEmail, the object it sends
EmailPayload(emailData, relatedRecordId) ==
    LET emailRecord == [Subject |-> emailData.subject,
                        TextBody |-> emailData.body,
                        FromAddress |-> emailData.from,
                        ToAddress |-> emailData.to,
                        MessageDate |-> emailData.date,
                        Status |-> Str("3"),
                        Incoming |-> Or(emailData.incoming, Str("false"))]
    IN  IF Truthy(relatedRecordId)
        THEN With(emailRecord, "RelatedToId", relatedRecordId)
        ELSE emailRecord

\* an action that reports every failure of its call as a failure of its own
PropagateWrapped(o, error) ==
    [o EXCEPT !.pc = "done", !.raised = TRUE, !.failed = o.pc,
              !.error = "ActionFailed"]

\* return await this.createRecord(...) without a try block: the failure of
\* apiCall is the failure of the action
Propagate(o, error) ==
    [o EXCEPT !.pc = "done", !.raised = TRUE, !.failed = o.pc, !.error = error]

CreateNames ==
    {"createContact", "createLead", "createActivityFromEmail", "logEmail"}

\* createRecord(objectType, recordData), called by the action of that name: one
\* apiCall with POST
createRecord(name, input, recordData) ==
    /\ Quiet
    /\ op.pc \in {"idle", "done"}
    /\ calls[OpSlot].pc \in {"idle", "done"}
    /\ LET r == ResolveCredentials(accessToken, instanceUrl, localStorage)
           sent == [IdleOp EXCEPT !.name = name, !.input = input,
                                  !.payload = recordData, !.pc = "create",
                                  !.dispatched = <<"create">>]
       IN  /\ apiCall(OpSlot, "op", "create")
           /\ op' = IF r.err = "none" THEN sent ELSE Propagate(sent, r.err)
    /\ probe' = NoProbe
    /\ refresher' = ReturnedRefresh(refresher)
    /\ UNCHANGED <<localStorage, now, issued, ticks, auth, salesforceSession,
                   view, signedOut>>

createContact(contactData) ==
    createRecord("createContact", contactData, ContactPayload(contactData))

createLead(leadData) ==
    createRecord("createLead", leadData, LeadPayload(leadData))

createActivityFromEmail(emailData, activityData) ==
    createRecord("createActivityFromEmail", activityData,
                 ActivityPayload(emailData, activityData))

logEmail(emailData, relatedRecordId) ==
    createRecord("logEmail", emailData,
                 EmailPayload(emailData, relatedRecordId))

\* the apiCall of createRecord has settled: the action returns what it
\* returned, or fails as it failed
createRecordResumes ==
    /\ op.name \in CreateNames
    /\ op.pc = "create"
    /\ calls[OpSlot].pc = "done"
    /\ op' = IF calls[OpSlot].outcome = "ok"
             THEN [op EXCEPT !.pc = "done", !.returned = calls[OpSlot].result]
             ELSE Propagate(op, calls[OpSlot].outcome)
    /\ calls' = Returned(calls)
    /\ probe' = NoProbe
    /\ refresher' = ReturnedRefresh(refresher)
    /\ UNCHANGED <<localStorage, accessToken, instanceUrl, now, issued, ticks,
                   auth, salesforceSession, view, signedOut>>

----------------------------------------------------------------------------
(* testConnection *)

\* a testConnection without its try block
TestFailureRaises(o, error) ==
    [o EXCEPT !.pc = "done", !.raised = TRUE, !.failed = o.pc, !.error = error]

\* testConnection, its catch block: { success: false, error: error.message }
TestFailure(o, error) ==
    [o EXCEPT !.pc = "done", !.success = FALSE, !.failed = o.pc,
              !.error = error]

\* testConnection or its continuation calls apiCall for q
TestDispatch(o, q) ==
    LET r == ResolveCredentials(accessToken, instanceUrl, localStorage)
        sent == [o EXCEPT !.pc = q, !.dispatched = Append(@, q)]
    IN  /\ apiCall(OpSlot, "op", q)
        /\ op' = IF r.err = "none" THEN sent ELSE TestFailure(sent, r.err)

testConnection ==
    /\ Quiet
    /\ op.pc \in {"idle", "done"}
    /\ calls[OpSlot].pc \in {"idle", "done"}
    /\ TestDispatch([IdleOp EXCEPT !.name = "testConnection"], "user")
    /\ probe' = NoProbe
    /\ refresher' = ReturnedRefresh(refresher)
    /\ UNCHANGED <<localStorage, now, issued, ticks, auth, salesforceSession,
                   view, signedOut>>

\* the call testConnection awaits has settled
testConnectionResumes ==
    /\ op.name = "testConnection"
    /\ op.pc \in {"user", "org"}
    /\ calls[OpSlot].pc = "done"
    /\ IF calls[OpSlot].outcome # "ok"
       THEN /\ op' = TestFailure(op, calls[OpSlot].outcome)
            /\ calls' = Returned(calls)
            /\ UNCHANGED <<accessToken, instanceUrl>>
       ELSE IF op.pc = "org"
       THEN /\ op' = [op EXCEPT !.pc = "done", !.success = TRUE]
            /\ calls' = Returned(calls)
            /\ UNCHANGED <<accessToken, instanceUrl>>
       ELSE TestDispatch(op, "org")
    /\ probe' = NoProbe
    /\ refresher' = ReturnedRefresh(refresher)
    /\ UNCHANGED <<localStorage, now, issued, ticks, auth, salesforceSession,
                   view, signedOut>>

----------------------------------------------------------------------------
(* search and searchContactsAndLeads *)

\* search(searchTerm, objectTypes): one apiCall
search(objectTypes) ==
    /\ Quiet
    /\ op.pc \in {"idle", "done"}
    /\ calls[OpSlot].pc \in {"idle", "done"}
    /\ LET r == ResolveCredentials(accessToken, instanceUrl, localStorage)
           sent == [IdleOp EXCEPT !.name = "search",
                                  !.input = [kind |-> "search",
                                             objectTypes |-> objectTypes],
                                  !.pc = "search",
                                  !.dispatched = <<"search">>]
       IN  /\ apiCall(OpSlot, "op", "search")
           /\ op' = IF r.err = "none" THEN sent ELSE Propagate(sent, r.err)
    /\ probe' = NoProbe
    /\ refresher' = ReturnedRefresh(refresher)
    /\ UNCHANGED <<localStorage, now, issued, ticks, auth, salesforceSession,
                   view, signedOut>>

\* search returns what apiCall returned: the parsed response, as it came
searchResumes ==
    /\ op.name = "search"
    /\ op.pc = "search"
    /\ calls[OpSlot].pc = "done"
    /\ op' = IF calls[OpSlot].outcome = "ok"
             THEN [op EXCEPT !.pc = "done", !.returned = calls[OpSlot].result]
             ELSE Propagate(op, calls[OpSlot].outcome)
    /\ calls' = Returned(calls)
    /\ probe' = NoProbe
    /\ refresher' = ReturnedRefresh(refresher)
    /\ UNCHANGED <<localStorage, accessToken, instanceUrl, now, issued, ticks,
                   auth, salesforceSession, view, signedOut>>

\* records.forEach(r => results.push({ id: r.Id, ..., type: type }))
Tagged(records, type) ==
    [i \in 1..Len(records) |-> [type |-> type, id |-> records[i]]]

\* an array returned by an operation, as opposed to a parsed response
ListResult(list) == [kind |-> "list", has |-> TRUE, recs |-> list]

\* searchContactsAndLeads, its catch block: the list gathered so far is returned
SearchFailure(o, error) ==
    [o EXCEPT !.pc = "done", !.failed = o.pc, !.error = error,
              !.returned = ListResult(o.list)]

\* searchContactsAndLeads or its continuation calls this.query
SearchDispatch(o, q) ==
    LET r == ResolveCredentials(accessToken, instanceUrl, localStorage)
        sent == [o EXCEPT !.pc = q, !.dispatched = Append(@, q)]
    IN  /\ apiCall(OpSlot, "op", q)
        /\ op' = IF r.err = "none" THEN sent ELSE SearchFailure(sent, r.err)

searchContactsAndLeads ==
    /\ Quiet
    /\ op.pc \in {"idle", "done"}
    /\ calls[OpSlot].pc \in {"idle", "done"}
    /\ SearchDispatch([IdleOp EXCEPT !.name = "searchContactsAndLeads"],
                      "searchContact")
    /\ probe' = NoProbe
    /\ refresher' = ReturnedRefresh(refresher)
    /\ UNCHANGED <<localStorage, now, issued, ticks, auth, salesforceSession,
                   view, signedOut>>

\* the query searchContactsAndLeads awaits has settled
searchContactsAndLeadsResumes ==
    /\ op.name = "searchContactsAndLeads"
    /\ op.pc \in {"searchContact", "searchLead"}
    /\ calls[OpSlot].pc = "done"
    /\ LET result == calls[OpSlot].result
           type == IF op.pc = "searchContact" THEN "Contact" ELSE "Lead"
           pushed == [op EXCEPT !.list = IF result.has
                                         THEN @ \o Tagged(result.recs, type)
                                         ELSE @]
       IN  IF calls[OpSlot].outcome # "ok"
           THEN /\ op' = SearchFailure(op, calls[OpSlot].outcome)
                /\ calls' = Returned(calls)
                /\ UNCHANGED <<accessToken, instanceUrl>>
           ELSE IF op.pc = "searchLead"
           THEN /\ op' = [pushed EXCEPT !.pc = "done",
                                        !.returned = ListResult(pushed.list)]
                /\ calls' = Returned(calls)
                /\ UNCHANGED <<accessToken, instanceUrl>>
           ELSE SearchDispatch(pushed, "searchLead")
    /\ probe' = NoProbe
    /\ refresher' = ReturnedRefresh(refresher)
    /\ UNCHANGED <<localStorage, now, issued, ticks, auth, salesforceSession,
                   view, signedOut>>

----------------------------------------------------------------------------
(* The specification *)

\* now starts late enough for every issued_at of the model to be in the past
StartTime == 2 * expirationTime

Init ==
    /\ localStorage \in {Absent, Malformed}
    /\ accessToken = Null
    /\ instanceUrl = NullUrl
    /\ now = StartTime
    /\ issued = 0
    /\ ticks = 0
    /\ calls = [c \in CallIds |-> IdleCall]
    /\ refresher = IdleRefresher
    /\ auth = IdleAuth
    /\ op = IdleOp
    /\ salesforceSession = Absent
    /\ view = "none"
    /\ probe = NoProbe
    /\ signedOut = FALSE

\* The service with one apiCall at a time
Next ==
    \/ UserCall(OpSlot)
    \/ FetchResponse(OpSlot)
    \/ RefreshResponse(OpSlot)
    \/ RetryResponseArrives(OpSlot)
    \/ RefreshStart
    \/ RefreshFinish
    \/ logout
    \/ IsAuthenticated
    \/ GetSessionInfo
    \/ \E u \in Urls : authenticate(u)
    \/ PopupRedirects
    \/ PopupClosedByUser
    \/ Poll
    \/ ExchangeResponse
    \/ Reload

Spec == Init /\ [][Next]_vars

\* The task pane has just been loaded over what an earlier run persisted: no
\* item, a malformed one, or the session of an authorization, with or without
\* a refresh token
InitOps ==
    /\ localStorage \in
         {Absent, Malformed}
           \cup {Session(1, rt, u, DigitsIssuedAt(StartTime), "sig") :
                   rt \in {"rt", NoRefresh}, u \in Urls}
    /\ accessToken = Null
    /\ instanceUrl = NullUrl
    /\ now = StartTime
    /\ issued = IF localStorage.kind = "session" THEN 1 ELSE 0
    /\ ticks = 0
    /\ calls = [c \in CallIds |-> IdleCall]
    /\ refresher = IdleRefresher
    /\ auth = IdleAuth
    /\ op = IdleOp
    /\ salesforceSession = Absent
    /\ view = "none"
    /\ probe = NoProbe
    /\ signedOut = FALSE

\* The service with a domain operation making its calls
NextOps ==
    \/ \E emails \in {NoList, List(<<>>), List(<<"x@y.com">>)} :
          findRelatedRecords(emails)
    \/ findRelatedRecordsResumes
    \/ FetchResponse(OpSlot)
    \/ RefreshResponse(OpSlot)
    \/ RetryResponseArrives(OpSlot)
    \/ logout

SpecOps == InitOps /\ [][NextOps]_vars

----------------------------------------------------------------------------
(* Properties of apiCall and the session *)

\* an apiCall has come back in this step
Returns(c) == calls[c].pc # "done" /\ calls'[c].pc = "done"

\* an apiCall is invoked in this step
Invoked(c) == calls[c].pc \in {"idle", "done"} /\ calls'[c].pc \in {"fetch", "done"}

\* the 401 of the first request was followed by a refresh that failed
RefreshFailed(call) ==
    call.pc = "done" /\ call.refreshes = 1 /\ call.newToken = Null

\* nothing of the service is in progress
Quiescent ==
    /\ Quiet
    /\ \A c \in CallIds : calls[c].pc \in {"idle", "done"}
    /\ refresher.pc \in {"idle", "done"}
    /\ ~auth.interval
    /\ auth.exchange # "inflight"
    /\ op.pc \in {"idle", "done"}

\* C1: an apiCall sends its request at most twice, the second time only as the
\* retry after a refresh; whatever answers the retry, the call then settles
\* without a further refresh or attempt.
C1_AtMostTwoAttempts ==
    \A c \in CallIds :
        /\ calls[c].attempts <= 2
        /\ calls[c].attempts = 2 =>
              /\ calls[c].pc \in {"retry", "done"}
              /\ calls[c].refreshes = 1
              /\ calls[c].newToken # Null

\* C1 witness: a retry answered by 401 has settled after two attempts
C1_Witness ==
    \E c \in CallIds :
        calls[c].pc = "done" /\ calls[c].attempts = 2 /\ calls[c].status = "401"

\* C2 as stated: whenever the 401 is followed by a failed refresh, for lack of a
\* refresh token or by a rejected grant, the call fails with AuthExpired and no
\* session is persisted when it returns.
C2_SessionAbsentAfterAnyFailedRefresh ==
    \A c \in CallIds :
        (RefreshFailed(calls[c])
           /\ calls[c].refreshError \in {"NoRefreshToken", "RefreshExpired"})
        => calls[c].outcome = "AuthExpired" /\ localStorage = Absent

\* C2 amended: a call whose 401 is followed by a failed refresh fails with
\* AuthExpired; when it returns the persisted session is absent if the grant
\* was rejected by the remote, and is what it was before if the refresh failed
\* without a rejected grant (no refresh token).
C2_FailedRefresh ==
    [][\A c \in CallIds :
         (Returns(c) /\ RefreshFailed(calls'[c])) =>
            /\ calls'[c].outcome = "AuthExpired"
            /\ calls'[c].refreshError = "RefreshExpired" => localStorage' = Absent
            /\ calls'[c].refreshError # "RefreshExpired" =>
                  localStorage' = localStorage]_vars

\* C2 witness: a call has returned after the remote rejected its refresh grant
C2_Witness ==
    \E c \in CallIds :
        /\ RefreshFailed(calls[c])
        /\ calls[c].refreshError = "RefreshExpired"
        /\ calls[c].outcome = "AuthExpired"

\* C3 as stated: a call whose last response has status 204, to the first
\* request or to the retry, returns the empty result and does not fail.
C3_NoContentIsEmptyResult ==
    \A c \in CallIds :
        (calls[c].pc = "done" /\ calls[c].status = "204")
        => calls[c].outcome = "ok" /\ calls[c].result = EmptyResult

\* C5 as stated: with nothing in progress, a set in-memory access token means a
\* persisted session with that access token and the in-memory instance URL.
C5_CacheConsistent ==
    (Quiescent /\ accessToken # Null) =>
        /\ localStorage.kind = "session"
        /\ localStorage.access_token = accessToken
        /\ localStorage.instance_url = instanceUrl

\* C6 as stated: after a logout or a rejected refresh, and until an
\* authorization succeeds, every apiCall fails with NotAuthenticated before it
\* sends a request.
C6_UnauthenticatedAfterFailure ==
    [][\A c \in CallIds :
         (signedOut /\ Invoked(c)) =>
            calls'[c].pc = "done" /\ calls'[c].outcome = "NotAuthenticated"]_vars

\* C7: an apiCall runs refreshToken at most once, and exactly once when its
\* first response is a 401; a retry is sent only once that refresh has produced
\* a token, and carries that token, never the one sent first; a failed refresh
\* is followed by no retry.
C7_RefreshThenRetry ==
    \A c \in CallIds :
        /\ calls[c].refreshes <= 1
        /\ calls[c].refreshRequests <= calls[c].refreshes
        /\ calls[c].pc = "refresh" => calls[c].refreshes = 1
        /\ (calls[c].pc = "done" /\ calls[c].attempts = 1
              /\ calls[c].status = "401") => calls[c].refreshes = 1
        /\ calls[c].attempts = 2 =>
              /\ calls[c].refreshes = 1
              /\ calls[c].newToken # Null
              /\ calls[c].token2 = calls[c].newToken
              /\ calls[c].token2 # calls[c].token1
        /\ calls[c].refreshError # "none" => calls[c].attempts = 1

\* C7 witness: the retry is in flight with the token the refresh produced
C7_Witness ==
    \E c \in CallIds :
        /\ calls[c].pc = "retry"
        /\ calls[c].token1 # Null
        /\ calls[c].token2 = calls[c].newToken

\* C8 as stated: with a malformed persisted item no operation raises a parse
\* failure: apiCall with an empty cache fails with NotAuthenticated,
\* refreshToken with NoRefreshToken, and isAuthenticated, getSessionInfo and
\* the startup check report no session.
C8_MalformedIsAbsence ==
    localStorage = Malformed =>
        /\ \A c \in CallIds :
              (calls[c].pc = "done" /\ calls[c].attempts = 0)
              => calls[c].outcome = "NotAuthenticated"
        /\ refresher.pc = "done" => refresher.outcome = "NoRefreshToken"
        /\ probe.name = "isAuthenticated" => ~probe.flag
        /\ probe.name = "getSessionInfo" => probe.value = Absent
        /\ view # "main"

----------------------------------------------------------------------------
(* Session expiry *)

\* the issued_at values a persisted session may hold: none, an empty or a
\* non-numeric string, or a timestamp: around the start of the validity window
\* that ends at StartTime, at StartTime, or later
IssuedAts ==
    {NoIssuedAt, EmptyIssuedAt, TextIssuedAt}
      \cup {DigitsIssuedAt(StartTime - expirationTime + d) : d \in -MaxSkew..MaxSkew}
      \cup {DigitsIssuedAt(StartTime), DigitsIssuedAt(StartTime + expirationTime)}

InitExpiry ==
    /\ localStorage \in
         {Session(1, "rt", CHOOSE u \in Urls : TRUE, iat, "sig") : iat \in IssuedAts}
    /\ accessToken = Null
    /\ instanceUrl = NullUrl
    /\ now = StartTime
    /\ issued = 1
    /\ ticks = 0
    /\ calls = [c \in CallIds |-> IdleCall]
    /\ refresher = IdleRefresher
    /\ auth = IdleAuth
    /\ op = IdleOp
    /\ salesforceSession = Absent
    /\ view = "none"
    /\ probe = NoProbe
    /\ signedOut = FALSE

NextExpiry ==
    \/ IsTokenExpired
    \/ checkSalesforceAuth
    \/ Tick
    \/ Reload

SpecExpiry == InitExpiry /\ [][NextExpiry]_vars

\* C9: isTokenExpired is true of a session without issued_at, true of one
\* whose issued_at is a timestamp more than the two hours of the validity
\* window before now, and false of one whose issued_at is a timestamp at most
\* two hours before now.
C9_ExpiryByWindow ==
    probe.name = "isTokenExpired" =>
        LET iat == probe.value.issued_at
        IN  /\ iat.kind = "absent" => probe.flag
            /\ (iat.kind = "digits" /\ now - iat.val > 2 * 60 * 60 * 1000)
                  => probe.flag
            /\ (iat.kind = "digits" /\ now - iat.val <= 2 * 60 * 60 * 1000)
                  => ~probe.flag

\* C9 witness: a session exactly two hours old is found not expired
C9_Witness ==
    /\ probe.name = "isTokenExpired"
    /\ probe.value.issued_at.kind = "digits"
    /\ now - probe.value.issued_at.val = 2 * 60 * 60 * 1000
    /\ ~probe.flag

\* C10 as stated: isTokenExpired is true of a session whose issued_at is a
\* non-numeric string.
C10_UnparseableIsExpired ==
    (probe.name = "isTokenExpired" /\ probe.value.issued_at.kind = "text")
        => probe.flag

\* C4 as stated: findRelatedRecords with addresses, when its Contact query
\* fails (the remote answers it with an error status, the credentials staying
\* good for a Lead query), still dispatches the Lead query, returns with
\* contacts, accounts and opportunities empty, and does not raise.
C4_LeadsAfterContactFailure ==
    (/\ op.name = "findRelatedRecords"
     /\ op.pc = "done"
     /\ ~NoAddresses(op.emails)
     /\ op.failed = "contact"
     /\ op.error = "ApiCallFailed")
    => /\ \E i \in 1..Len(op.dispatched) : op.dispatched[i] = "lead"
       /\ ~op.raised
       /\ op.results.contacts = <<>>
       /\ op.results.accounts = <<>>
       /\ op.results.opportunities = <<>>

----------------------------------------------------------------------------
(* Which persisted sessions are used *)

\* what an earlier run may have left in localStorage: the token response is
\* stored as it came, so any of its fields may be missing
PersistedSessions ==
    {Session(tok, rt, u, iat, "sig") :
        tok \in {Null, 1}, rt \in {"rt", NoRefresh},
        u \in {NullUrl, CHOOSE x \in Urls : TRUE}, iat \in IssuedAts}

InitSession ==
    /\ localStorage \in {Absent, Malformed} \cup PersistedSessions
    /\ accessToken = Null
    /\ instanceUrl = NullUrl
    /\ now = StartTime
    /\ issued = 1
    /\ ticks = 0
    /\ calls = [c \in CallIds |-> IdleCall]
    /\ refresher = IdleRefresher
    /\ auth = IdleAuth
    /\ op = IdleOp
    /\ salesforceSession = Absent
    /\ view = "none"
    /\ probe = NoProbe
    /\ signedOut = FALSE

\* The task pane and the service over the same persisted session
NextSession ==
    \/ checkSalesforceAuth
    \/ \E u \in Urls : simulateAuthentication(u)
    \/ logoutFromSalesforce
    \/ IsAuthenticated
    \/ UserCall(OpSlot)
    \/ FetchResponse(OpSlot)
    \/ RefreshResponse(OpSlot)
    \/ RetryResponseArrives(OpSlot)
    \/ Tick
    \/ Reload

SpecSession == InitSession /\ [][NextSession]_vars

\* a session that may be used: access token and instance URL present, and
\* issued at most two hours before t
Usable(item, t) ==
    /\ item.kind = "session"
    /\ item.access_token # Null
    /\ item.instance_url # NullUrl
    /\ item.issued_at.kind = "digits"
    /\ t - item.issued_at.val <= 2 * 60 * 60 * 1000

\* C11 as stated: the startup check, isAuthenticated and the credential
\* resolution of apiCall (with an empty cache) each accept the persisted session
\* if and only if its access token and instance URL are present and its
\* issued_at lies within the two hours of the validity window.
C11_AcceptedIffUsable ==
    [][/\ (view = "none" /\ view' # "none")
            => (view' = "main" <=> Usable(localStorage, now))
       /\ probe'.name = "isAuthenticated"
            => (probe'.flag <=> Usable(localStorage, now))
       /\ \A c \in CallIds :
            (Invoked(c) /\ accessToken = Null)
            => (calls'[c].pc = "fetch" <=> Usable(localStorage, now))]_vars

\* C12: an apiCall invoked with an empty cache while no item is persisted, or a
\* session without an access token is, fails with NotAuthenticated before any
\* request is sent, and leaves the cache and the persisted session as they
\* were.  (An item that cannot be parsed is the subject of C8.)
C12_NotAuthenticatedWithoutCredentials ==
    [][\A c \in CallIds :
         (/\ Invoked(c)
          /\ accessToken = Null
          /\ \/ localStorage.kind = "absent"
             \/ (localStorage.kind = "session"
                   /\ localStorage.access_token = Null))
         => /\ calls'[c].pc = "done"
            /\ calls'[c].outcome = "NotAuthenticated"
            /\ calls'[c].attempts = 0
            /\ calls'[c].refreshes = 0
            /\ accessToken' = accessToken
            /\ instanceUrl' = instanceUrl
            /\ localStorage' = localStorage]_vars

\* C12 witness: a call has failed with NotAuthenticated over a persisted
\* session that holds no access token
C12_Witness ==
    /\ accessToken = Null
    /\ localStorage.kind = "session"
    /\ localStorage.access_token = Null
    /\ \E c \in CallIds :
          /\ calls[c].pc = "done"
          /\ calls[c].outcome = "NotAuthenticated"
          /\ calls[c].attempts = 0

----------------------------------------------------------------------------
(* Failures of apiCall and refreshToken *)

\* C13: when the first response of an apiCall has a failure status other than
\* 401, the call fails with ApiCallFailed and that status, runs no refresh and
\* sends no retry, and the persisted session and the cache stay as they were.
C13_OtherFailureStatus ==
    [][\A c \in CallIds :
         (/\ calls[c].pc = "fetch"
          /\ calls'[c].pc # "fetch"
          /\ calls'[c].status \in Statuses \ {"200", "204", "401", "neterr"})
         => /\ calls'[c].pc = "done"
            /\ calls'[c].outcome = "ApiCallFailed"
            /\ calls'[c].attempts = 1
            /\ calls'[c].refreshes = 0
            /\ calls'[c].refreshRequests = 0
            /\ localStorage' = localStorage
            /\ accessToken' = accessToken
            /\ instanceUrl' = instanceUrl]_vars

\* C13 witness: a call has failed on a 500 while a session with a refresh token
\* is persisted
C13_Witness ==
    /\ localStorage.kind = "session"
    /\ localStorage.refresh_token # NoRefresh
    /\ \E c \in CallIds :
          /\ calls[c].pc = "done"
          /\ calls[c].status = "500"
          /\ calls[c].outcome = "ApiCallFailed"

\* C14: a refreshToken whose grant the remote rejects fails with RefreshExpired,
\* and no session is persisted afterwards.
C14_RejectedRefreshClearsSession ==
    /\ refresher.pc = "wait" =>
          LET res == RefreshResult("rejected", refresher.session, localStorage,
                                   accessToken, issued + 1, now)
          IN  res.err = "RefreshExpired" /\ res.item = Absent
    /\ (refresher.pc = "done" /\ refresher.outcome = "RefreshExpired")
          => localStorage = Absent
    /\ \A c \in CallIds :
          (calls[c].pc = "done" /\ calls[c].refreshError = "RefreshExpired")
          => localStorage = Absent

\* C14 witness: a refreshToken called over a session with a refresh token has
\* failed with RefreshExpired
C14_Witness ==
    /\ refresher.pc = "done"
    /\ refresher.outcome = "RefreshExpired"
    /\ refresher.session.kind = "session"
    /\ refresher.session.refresh_token # NoRefresh
    /\ localStorage = Absent

\* refreshToken is called in this step
RefreshInvoked ==
    refresher.pc \in {"idle", "done"} /\ refresher'.pc \in {"wait", "done"}

\* no item is persisted, or a session without a refresh token
WithoutRefreshToken(item) ==
    \/ item.kind = "absent"
    \/ (item.kind = "session" /\ item.refresh_token = "undefined")

\* C16: refreshToken run while no session is persisted, or one without a
\* refresh token, fails with NoRefreshToken, sends no request, and leaves the
\* persisted session and the cache as they were; called by a caller or by an
\* apiCall that got a 401.
C16_NoRefreshToken ==
    [][/\ (RefreshInvoked /\ WithoutRefreshToken(localStorage))
            => /\ refresher'.pc = "done"
               /\ refresher'.outcome = "NoRefreshToken"
               /\ localStorage' = localStorage
               /\ accessToken' = accessToken
               /\ instanceUrl' = instanceUrl
       /\ \A c \in CallIds :
            (/\ calls[c].pc = "fetch"
             /\ calls'[c].refreshes = 1
             /\ WithoutRefreshToken(localStorage))
            => /\ calls'[c].pc = "done"
               /\ calls'[c].refreshError = "NoRefreshToken"
               /\ calls'[c].refreshRequests = 0
               /\ localStorage' = localStorage
               /\ accessToken' = accessToken
               /\ instanceUrl' = instanceUrl]_vars

\* C16 witness: refreshToken has failed with NoRefreshToken over a persisted
\* session without a refresh token, the cache holding that session's token
C16_Witness ==
    /\ refresher.pc = "done"
    /\ refresher.outcome = "NoRefreshToken"
    /\ localStorage.kind = "session"
    /\ localStorage.refresh_token = NoRefresh
    /\ accessToken = localStorage.access_token

\* a refreshToken has succeeded in this step, called by a caller or by an apiCall
RefreshSucceeded ==
    \/ (refresher.pc = "wait" /\ refresher'.pc = "done"
          /\ refresher'.outcome = "ok")
    \/ \E c \in CallIds : calls[c].pc = "refresh" /\ calls'[c].pc = "retry"

\* C15 as stated: a successful refresh replaces the access token and issued_at
\* of the persisted session by those of the token response and sets the
\* in-memory access token to the same token; the persisted refresh token,
\* instance URL and signature are what they were.
C15_RefreshUpdatesInPlace ==
    [][RefreshSucceeded =>
         /\ localStorage'.kind = "session"
         /\ accessToken' = issued'
         /\ localStorage'.access_token = accessToken'
         /\ localStorage'.issued_at = DigitsIssuedAt(now)
         /\ localStorage.kind = "session"
         /\ localStorage'.refresh_token = localStorage.refresh_token
         /\ localStorage'.instance_url = localStorage.instance_url
         /\ localStorage'.signature = localStorage.signature]_vars

----------------------------------------------------------------------------
(* authenticate: the popup and the timer *)

\* The authorization flow alone
NextAuth ==
    \/ \E u \in Urls : authenticate(u)
    \/ PopupRedirects
    \/ PopupClosedByUser
    \/ Poll
    \/ ExchangeResponse
    \/ logout

\* setInterval keeps firing until it is cleared, and the token request is
\* answered or fails
SpecAuth ==
    Init /\ [][NextAuth]_vars /\ WF_vars(Poll) /\ WF_vars(ExchangeResponse)

\* C17 as stated: once the popup has reached the redirect URI or has been
\* closed, the promise of authenticate is eventually settled: resolved, or
\* rejected by a failed code exchange, by the error of the redirect, or as
\* cancelled.
C17_AuthenticateSettles ==
    (auth.outcome = "pending" /\ (auth.popup.at = "redirect" \/ auth.popup.closed))
      ~> (auth.outcome \in {"ok", "TokenExchangeFailed", "NetworkError",
                            "AuthDenied", "AuthCancelled"})

\* C18: a timer tick that finds the popup open and still on the remote domain
\* changes nothing: the promise stays pending, no exchange starts, and the
\* timer stays set.
C18_RemotePopupStaysPending ==
    [][(/\ auth.interval
        /\ ~auth.popup.closed
        /\ auth.popup.at = "remote"
        /\ probe'.name = "poll")
       => /\ auth' = auth
          /\ auth'.outcome = "pending"
          /\ auth'.interval
          /\ probe'.flag]_vars

\* C18 witness: the timer has fired on an open popup on the remote domain and
\* is still set
C18_Witness ==
    /\ probe.name = "poll"
    /\ probe.flag
    /\ auth.interval
    /\ ~auth.popup.closed
    /\ auth.popup.at = "remote"
    /\ auth.outcome = "pending"

----------------------------------------------------------------------------
(* Overlapping calls *)

\* The service with two apiCall invocations that may overlap
NextRace ==
    \E c \in CallIds :
        \/ UserCall(c)
        \/ FetchResponse(c)
        \/ RefreshResponse(c)
        \/ RetryResponseArrives(c)

SpecRace == InitOps /\ [][NextRace]_vars

\* C19: calls are not coordinated: a call whose first response is a 401 while a
\* session with a refresh token is persisted sends a refresh request of its
\* own, whatever the other calls are doing, so two overlapping calls that both
\* get a 401 send two refresh requests.
C19_EachCallRefreshes ==
    [][\A c \in CallIds :
         (/\ calls[c].pc = "fetch"
          /\ calls'[c].pc # "fetch"
          /\ calls'[c].status = "401"
          /\ localStorage.kind = "session"
          /\ localStorage.refresh_token # "undefined")
         => /\ calls'[c].pc = "refresh"
            /\ calls'[c].refreshRequests = 1]_vars

\* C19 witness: two calls sent with the same access token have both got a 401
\* and the refresh request of each is in flight
C19_Witness ==
    \E c, d \in CallIds :
        /\ c # d
        /\ calls[c].pc = "refresh"
        /\ calls[d].pc = "refresh"
        /\ calls[c].refreshRequests = 1
        /\ calls[d].refreshRequests = 1
        /\ calls[c].token1 = calls[d].token1

----------------------------------------------------------------------------
(* findRelatedRecords without addresses *)

\* C20: findRelatedRecords called with no list or with an empty one returns at
\* once, with every group of its result empty, and dispatches no query.
C20_NoAddressesNoCall ==
    (op.name = "findRelatedRecords"
       /\ (~op.emails.given \/ op.emails.list = <<>>))
    => /\ op.pc = "done"
       /\ ~op.raised
       /\ op.results.contacts = <<>>
       /\ op.results.leads = <<>>
       /\ op.results.accounts = <<>>
       /\ op.results.opportunities = <<>>
       /\ op.dispatched = <<>>
       /\ \A c \in CallIds : calls[c].pc = "idle"

\* C20 witness: findRelatedRecords has returned for an empty list while a
\* session is persisted
C20_Witness ==
    /\ op.name = "findRelatedRecords"
    /\ op.pc = "done"
    /\ op.emails.given
    /\ op.emails.list = <<>>
    /\ op.dispatched = <<>>
    /\ localStorage.kind = "session"

----------------------------------------------------------------------------
(* findRelatedRecords: failures and the order of its queries *)

\* the group of the result that a query of findRelatedRecords fills
Group(q) ==
    CASE q = "contact" -> "contacts"
      [] q = "account" -> "accounts"
      [] q = "opportunity" -> "opportunities"
      [] OTHER -> "leads"

Groups == {"contacts", "accounts", "opportunities", "leads"}

Queries == {"contact", "account", "opportunity", "lead"}

\* C21: findRelatedRecords never raises: whichever of its queries fails, and
\* with whatever failure of apiCall, it returns the grouped result, in which
\* every group filled before the failure holds the records of its query.
C21_FailuresAbsorbed ==
    [][(op'.name = "findRelatedRecords" /\ op' # op) =>
         LET awaited == op.name = "findRelatedRecords" /\ op.pc \in Queries
             filled == /\ awaited
                       /\ calls[OpSlot].pc = "done"
                       /\ calls[OpSlot].outcome = "ok"
                       /\ calls[OpSlot].result.has
         IN  /\ ~op'.raised
             /\ op'.pc \in Queries \cup {"done"}
             /\ \A g \in Groups :
                   op'.results[g] =
                     IF filled /\ g = Group(op.pc)
                     THEN calls[OpSlot].result.recs
                     ELSE IF awaited THEN op.results[g] ELSE <<>>]_vars

\* C21 witness: the Account query has failed with AuthExpired after the Contact
\* query had found contacts, and findRelatedRecords has returned them
C21_Witness ==
    /\ op.name = "findRelatedRecords"
    /\ op.pc = "done"
    /\ op.failed = "account"
    /\ op.error = "AuthExpired"
    /\ ~op.raised
    /\ Len(op.results.contacts) > 0

\* the values of a sequence
Range(seq) == {seq[i] : i \in 1..Len(seq)}

\* C27: when every query succeeds, findRelatedRecords with addresses sends the
\* Contact query, then the Account and the Opportunity query, then the Lead
\* query, each at most once; the Account and Opportunity queries are sent
\* exactly when a contact found has an account, with a list that holds the Id
\* of each such account once; the Lead query is sent in either case.
C27_QueryOrder ==
    (/\ op.name = "findRelatedRecords"
     /\ op.pc = "done"
     /\ op.failed = "none"
     /\ op.emails.given
     /\ Len(op.emails.list) > 0)
    => LET linked == {a \in Range(op.results.contacts) : a # 0}
       IN  /\ linked # {} =>
                 op.dispatched = <<"contact", "account", "opportunity", "lead">>
           /\ linked = {} => op.dispatched = <<"contact", "lead">>
           /\ Range(op.accountList) = linked
           /\ Len(op.accountList) = Cardinality(linked)

\* C27 witness: two contacts of the same account were found and all four
\* queries have been sent
C27_Witness ==
    /\ op.name = "findRelatedRecords"
    /\ op.pc = "done"
    /\ op.failed = "none"
    /\ Len(op.results.contacts) = 2
    /\ op.results.contacts[1] = op.results.contacts[2]
    /\ op.results.contacts[1] # 0
    /\ Len(op.dispatched) = 4

----------------------------------------------------------------------------
(* Cancelled and failed authorizations, and logout during a refresh *)

\* C28 as stated: an authorization that has failed as cancelled, the popup
\* having been closed, exchanges no authorization code and persists no session,
\* on the tick that cancels it or on a later one.
C28_CancelledHasNoEffect ==
    auth.outcome = "AuthCancelled" => auth.exchange = "none"

\* C29 as stated: when logout has run while the refresh request of an apiCall
\* was in flight, the persisted session is still absent and the in-memory
\* access token still unset once that refresh has finished.
C29_LogoutIsFinal ==
    [][\A c \in CallIds :
         (/\ calls[c].pc = "refresh"
          /\ localStorage = Absent
          /\ accessToken = Null
          /\ calls'[c].pc # "refresh")
         => /\ localStorage' = Absent
            /\ accessToken' = Null]_vars

\* C30 as stated: after an authorization that has failed (cancelled, denied, or
\* its code exchange rejected) the in-memory instance URL is still that of the
\* session whose access token is cached, and an apiCall sends that token to
\* the instance URL of that session only.
C30_FailedAttemptLeavesSession ==
    (/\ auth.outcome \in {"AuthCancelled", "AuthDenied", "TokenExchangeFailed"}
     /\ localStorage.kind = "session"
     /\ accessToken = localStorage.access_token)
    => /\ instanceUrl = localStorage.instance_url
       /\ \A c \in CallIds :
             (calls[c].pc = "fetch" /\ calls[c].token1 = accessToken)
             => calls[c].url = localStorage.instance_url

----------------------------------------------------------------------------
(* The actions built on a single call, testConnection and the searches *)

\* the inputs of the actions: an email, and what is said of the record to make
EmailData ==
    [subject |-> Str("Hello"), body |-> Str("Text"), from |-> Str("a@x.com"),
     to |-> Str("b@y.com"), date |-> Str("today"), incoming |-> Undefined]

ContactData ==
    [firstName |-> Str("Ann"), lastName |-> Str("Lee"), email |-> Str(""),
     phone |-> Undefined, title |-> Undefined, department |-> Undefined,
     description |-> Undefined]

LeadData ==
    [firstName |-> Str("Ann"), lastName |-> Str("Lee"), email |-> Str(""),
     phone |-> Undefined, company |-> Str("Acme"), title |-> Undefined,
     status |-> Undefined, source |-> Undefined, description |-> Undefined]

ActivityData ==
    [subject |-> Undefined, description |-> Undefined, status |-> Undefined,
     type |-> Undefined, priority |-> Undefined,
     relatedToId |-> Str("003"), relatedToType |-> Str("Contact")]

\* the objectTypes a search is called with
TypeLists == {<<"Contact", "Lead">>, <<"Lead", "Contact">>, <<"Contact">>}

NextActions ==
    \/ testConnection
    \/ testConnectionResumes
    \/ createContact(ContactData)
    \/ createLead(LeadData)
    \/ createActivityFromEmail(EmailData, ActivityData)
    \/ \E id \in {Undefined, Str("001")} : logEmail(EmailData, id)
    \/ createRecordResumes
    \/ \E types \in TypeLists : search(types)
    \/ searchResumes
    \/ searchContactsAndLeads
    \/ searchContactsAndLeadsResumes
    \/ FetchResponse(OpSlot)
    \/ RefreshResponse(OpSlot)
    \/ RetryResponseArrives(OpSlot)
    \/ logout

SpecActions == InitOps /\ [][NextActions]_vars

\* C22: testConnection never raises: when the fetch of the current user or of
\* the organization fails, with whatever failure of apiCall, it returns success
\* false with that failure in its error field; it returns success true only
\* when both fetches have succeeded.
C22_TestConnectionSummary ==
    [][(op'.name = "testConnection" /\ op' # op) =>
         LET awaited == op.name = "testConnection" /\ op.pc \in {"user", "org"}
             failed == awaited /\ calls[OpSlot].outcome # "ok"
         IN  /\ ~op'.raised
             /\ failed =>
                   /\ op'.pc = "done"
                   /\ ~op'.success
                   /\ op'.error = calls[OpSlot].outcome
             /\ (~awaited /\ op'.pc = "done") =>
                   /\ ~op'.success
                   /\ op'.error = calls'[OpSlot].outcome
                   /\ op'.error # "none"
             /\ op'.success =>
                   /\ op'.pc = "done"
                   /\ op'.dispatched = <<"user", "org">>
                   /\ op.pc = "org"
                   /\ calls[OpSlot].outcome = "ok"]_vars

\* C22 witness: the fetch of the organization has failed with AuthExpired and
\* testConnection has returned success false
C22_Witness ==
    /\ op.name = "testConnection"
    /\ op.pc = "done"
    /\ op.failed = "org"
    /\ op.error = "AuthExpired"
    /\ ~op.success
    /\ ~op.raised

\* C23: logEmail, createContact, createLead and createActivityFromEmail call
\* apiCall once, and when that call fails they fail with its failure, unchanged.
C23_FailuresPropagate ==
    [][(/\ op'.name \in {"logEmail", "createContact", "createLead",
                          "createActivityFromEmail"}
        /\ op' # op) =>
         LET awaited == op.name = op'.name /\ op.pc = "create"
         IN  /\ Len(op'.dispatched) = 1
             /\ calls'[OpSlot].attempts <= 2
             /\ (awaited /\ calls[OpSlot].outcome # "ok") =>
                   /\ op'.pc = "done"
                   /\ op'.raised
                   /\ op'.error = calls[OpSlot].outcome
             /\ (awaited /\ calls[OpSlot].outcome = "ok") =>
                   /\ op'.pc = "done"
                   /\ ~op'.raised
                   /\ op'.returned = calls[OpSlot].result
             /\ (~awaited /\ op'.pc = "done") =>
                   /\ op'.raised
                   /\ op'.error = calls'[OpSlot].outcome
                   /\ op'.error # "none"]_vars

\* C23 witness: createContact has failed with the ApiCallFailed of its call
C23_Witness ==
    /\ op.name = "createContact"
    /\ op.pc = "done"
    /\ op.raised
    /\ op.error = "ApiCallFailed"
    /\ Len(op.dispatched) = 1

\* the place of a value in a sequence that holds it
Index(seq, x) == CHOOSE i \in 1..Len(seq) : seq[i] = x

\* the records are of the types of the list, in the order of that list
InTypeOrder(list, types) ==
    /\ \A i \in 1..Len(list) : list[i].type \in Range(types)
    /\ \A i, j \in 1..Len(list) :
          i < j => Index(types, list[i].type) <= Index(types, list[j].type)

\* C26 as stated: what search returns is one list of records, each with its
\* type, the types in the order they were requested in and the records of a
\* type in the order the remote gave them; searchContactsAndLeads returns such
\* a list of the contacts, then the leads.
C26_SearchFlattens ==
    /\ (op.name = "search" /\ op.pc = "done" /\ ~op.raised) =>
          /\ op.returned.kind = "list"
          /\ InTypeOrder(op.returned.recs, op.input.objectTypes)
    /\ (op.name = "searchContactsAndLeads" /\ op.pc = "done") =>
          /\ op.returned.kind = "list"
          /\ InTypeOrder(op.returned.recs, <<"Contact", "Lead">>)

----------------------------------------------------------------------------
(* The objects sent by createContact, createLead and createActivityFromEmail,
   over the inputs they can be called with *)

\* what a property of an input object can hold
Values == {Undefined, NullValue, Str(""), Str("A")}
Optional == {Undefined, Str("x")}

ContactInputs ==
    {[firstName |-> a, lastName |-> b, email |-> c, phone |-> d, title |-> d,
      department |-> e, description |-> e] :
        a \in Values, b \in Values, c \in Values,
        d \in Optional, e \in Optional}

LeadInputs ==
    {[firstName |-> a, lastName |-> Str("Lee"), email |-> b, phone |-> d,
      company |-> e, title |-> d, status |-> st, source |-> so,
      description |-> e] :
        a \in Values, b \in Values, st \in Values, so \in Values,
        d \in Optional, e \in Optional}

RelatedTypes ==
    {Undefined, NullValue, Str(""), Str("Contact"), Str("Lead"),
     Str("Account"), Str("Opportunity")}

ActivityInputs ==
    {[subject |-> s, description |-> Undefined, status |-> Undefined,
      type |-> Undefined, priority |-> s, relatedToId |-> id,
      relatedToType |-> t] :
        s \in Optional, id \in Values \cup {Str("003")}, t \in RelatedTypes}

\* the call to come: which action, with which argument
Inputs ==
    {[kind |-> "contact", data |-> d] : d \in ContactInputs}
      \cup {[kind |-> "lead", data |-> d] : d \in LeadInputs}
      \cup {[kind |-> "activity", data |-> d] : d \in ActivityInputs}

\* The task pane holds the session of an earlier authorization and is about
\* to call one of the three actions
InitPayload ==
    /\ localStorage = Session(1, "rt", "https://a.example",
                              DigitsIssuedAt(StartTime), "sig")
    /\ accessToken = Null
    /\ instanceUrl = NullUrl
    /\ now = StartTime
    /\ issued = 1
    /\ ticks = 0
    /\ calls = [c \in CallIds |-> IdleCall]
    /\ refresher = IdleRefresher
    /\ auth = IdleAuth
    /\ op \in {[IdleOp EXCEPT !.input = i] : i \in Inputs}
    /\ salesforceSession = Absent
    /\ view = "none"
    /\ probe = NoProbe
    /\ signedOut = FALSE

NextPayload ==
    \/ /\ op.name = "none"
       /\ op.input.kind = "contact"
       /\ createContact(op.input.data)
    \/ /\ op.name = "none"
       /\ op.input.kind = "lead"
       /\ createLead(op.input.data)
    \/ /\ op.name = "none"
       /\ op.input.kind = "activity"
       /\ createActivityFromEmail(EmailData, op.input.data)
    \/ createRecordResumes
    \/ FetchResponse(OpSlot)
    \/ RefreshResponse(OpSlot)
    \/ RetryResponseArrives(OpSlot)

SpecPayload == InitPayload /\ [][NextPayload]_vars

\* a value that is given: not absent, not null, not the empty string
Given(v) == v \notin {Undefined, NullValue, Str("")}

\* the property of the input that a field of the remote object is taken from
InputOf ==
    [FirstName |-> "firstName", LastName |-> "lastName", Email |-> "email",
     Phone |-> "phone", Title |-> "title", Department |-> "department",
     Company |-> "company", Description |-> "description",
     Status |-> "status", LeadSource |-> "source"]

ContactFields ==
    {"FirstName", "LastName", "Email", "Phone", "Title", "Department",
     "Description"}

LeadFields ==
    {"FirstName", "LastName", "Email", "Phone", "Company", "Title",
     "Description"}

\* C24: the object createContact and createLead send has a field exactly
\* when the value given for it is not empty, and then with that value; the
\* object of createLead has Status and LeadSource besides, with the value given
\* or else 'Open - Not Contacted' and 'Email'; no field of the object is
\* empty, null or absent.
C24_PayloadOmitsEmpty ==
    /\ op.name = "createContact" =>
          /\ DOMAIN op.payload
               = {f \in ContactFields : Given(op.input[InputOf[f]])}
          /\ \A f \in DOMAIN op.payload :
                Given(op.payload[f]) /\ op.payload[f] = op.input[InputOf[f]]
    /\ op.name = "createLead" =>
          /\ DOMAIN op.payload
               = {f \in LeadFields : Given(op.input[InputOf[f]])}
                   \cup {"Status", "LeadSource"}
          /\ \A f \in DOMAIN op.payload \cap LeadFields :
                Given(op.payload[f]) /\ op.payload[f] = op.input[InputOf[f]]
          /\ op.payload.Status
               = IF Given(op.input.status) THEN op.input.status
                 ELSE Str("Open - Not Contacted")
          /\ op.payload.LeadSource
               = IF Given(op.input.source) THEN op.input.source
                 ELSE Str("Email")

\* C24 witness: createLead, called with an empty email and neither status nor
\* source, has sent an object without Email and with the two defaults
C24_Witness ==
    /\ op.name = "createLead"
    /\ op.pc = "create"
    /\ calls[OpSlot].pc = "fetch"
    /\ op.input.firstName = Str("A")
    /\ op.input.email = Str("")
    /\ op.input.status = Undefined
    /\ op.input.source = NullValue
    /\ "FirstName" \in DOMAIN op.payload
    /\ "Email" \notin DOMAIN op.payload
    /\ op.payload.Status = Str("Open - Not Contacted")
    /\ op.payload.LeadSource = Str("Email")

\* C25: the Task of createActivityFromEmail has, when an id of a related
\* record is given, exactly one link, holding that id: WhoId when the type
\* named is Contact or Lead, WhatId for every other type; when no id is given
\* it has neither.
C25_OneRelationshipLink ==
    op.name = "createActivityFromEmail" =>
       LET id == op.input.relatedToId
           who == "WhoId" \in DOMAIN op.payload
           what == "WhatId" \in DOMAIN op.payload
           person == op.input.relatedToType \in {Str("Contact"), Str("Lead")}
       IN  /\ (Given(id) /\ person) =>
                 who /\ ~what /\ op.payload.WhoId = id
           /\ (Given(id) /\ ~person) =>
                 what /\ ~who /\ op.payload.WhatId = id
           /\ ~Given(id) => ~who /\ ~what

\* C25 witness: a Task linked to a Lead by WhoId has been sent
C25_Witness ==
    /\ op.name = "createActivityFromEmail"
    /\ op.pc = "create"
    /\ calls[OpSlot].pc = "fetch"
    /\ op.input.relatedToId = Str("003")
    /\ op.input.relatedToType = Str("Lead")
    /\ "WhoId" \in DOMAIN op.payload
    /\ "WhatId" \notin DOMAIN op.payload

====
